---- MODULE Spec2Model ----
(***************************************************************************)
(* Document ingestion pipeline of the OCR RAG service: the upload and      *)
(* delete request handlers, the background worker pool, the document       *)
(* store (SQLite table document_store), the vector store and the files on  *)
(* disk.  Texts are sequences of tokens [src, page, len]; file names and   *)
(* paths are sequences of one-character strings and opaque path parts.     *)
(***************************************************************************)
EXTENDS Integers, Sequences, FiniteSets, TLC

(***************************************************************************)
(* Bounds of the model.                                                    *)
(***************************************************************************)
MaxUploads == 2
MaxPages == 1
MaxFaults == 2
MaxPoolUploads == 3   \* uploads accepted when the worker pool is studied
MaxScanPages == 4     \* pages of a PDF handed to the classifier on its own
MaxOcrPages == 2      \* pages of a PDF handed to the OCR extractor on its own
MaxChats == 3         \* /chat requests
MaxClock == 1         \* seconds that pass while the chats are served

(***************************************************************************)
(* Program constants.                                                      *)
(***************************************************************************)
max_workers == 2
chunk_size == 1000
chunk_overlap == 200
ScanPages == 3
ScanThreshold == 50
DirectThreshold == 100

\* SQL NULL / Python None is the empty sequence, a value v is <<v>>
NULL == <<>>
Some(v) == << v >>

(***************************************************************************)
(* Strings as sequences of characters.                                     *)
(***************************************************************************)
Chars(s) ==
  CASE s = "a.pdf"  -> <<"a", ".", "p", "d", "f">>
    [] s = "a.docx" -> <<"a", ".", "d", "o", "c", "x">>
    [] s = "a.HTML" -> <<"a", ".", "H", "T", "M", "L">>
    [] s = "a.txt"  -> <<"a", ".", "t", "x", "t">>
    [] s = ".pdf"   -> <<".", "p", "d", "f">>
    [] s = ".docx"  -> <<".", "d", "o", "c", "x">>
    [] s = ".html"  -> <<".", "h", "t", "m", "l">>
    [] s = ".txt"   -> <<".", "t", "x", "t">>

FileNames == { Chars("a.pdf"), Chars("a.docx"), Chars("a.HTML"),
               Chars("a.txt"), Chars(".pdf") }

LowerChar(c) ==
  CASE c = "P" -> "p" [] c = "D" -> "d" [] c = "F" -> "f"
    [] c = "O" -> "o" [] c = "C" -> "c" [] c = "X" -> "x"
    [] c = "H" -> "h" [] c = "T" -> "t" [] c = "M" -> "m"
    [] c = "L" -> "l" [] c = "A" -> "a"
    [] OTHER -> c

lower(s) == [i \in 1..Len(s) |-> LowerChar(s[i])]

\* str.rfind("."), 1-based, 0 when there is no dot
rfindDot(s) ==
  IF \E i \in 1..Len(s) : s[i] = "."
    THEN CHOOSE i \in 1..Len(s) : s[i] = "." /\ \A j \in (i+1)..Len(s) : s[j] # "."
    ELSE 0

\* os.path.splitext: the extension starts at the last dot, unless only dots
\* precede it
splitext(p) ==
  LET d == rfindDot(p) IN
  IF d > 0 /\ \E i \in 1..(d-1) : p[i] # "."
    THEN << SubSeq(p, 1, d-1), SubSeq(p, d, Len(p)) >>
    ELSE << p, <<>> >>

endswith(s, suffix) ==
  /\ Len(suffix) <= Len(s)
  /\ SubSeq(s, Len(s) - Len(suffix) + 1, Len(s)) = suffix

\* mutant: the list of allowed extensions also lets .txt through
allowed_extensions_with_txt ==
  { Chars(".pdf"), Chars(".docx"), Chars(".html"), Chars(".txt") }

allowed_extensions == { Chars(".pdf"), Chars(".docx"), Chars(".html") }

\* f"temp_{uuid.uuid4()}_{file.filename}"
TempPath(u, filename) == << "temp_", ToString(u), "_" >> \o filename

\* os.path.join(output_dir, f"{base_name}_mistral_extracted_text.txt")
TextOutputPath(input_pdf_path) ==
  << "./processed_documents/" >> \o splitext(input_pdf_path)[1]
     \o << "_mistral_extracted_text.txt" >>

(***************************************************************************)
(* Texts.  A text is a sequence of tokens [src, page, len] with len > 0;   *)
(* the empty text is the empty sequence.                                   *)
(***************************************************************************)
Token(src, page, n) == [src |-> src, page |-> page, len |-> n]

RECURSIVE TextLen(_)
TextLen(t) == IF t = <<>> THEN 0 ELSE t[1].len + TextLen(Tail(t))

\* "\n\n".join(raw_content) over the non-empty stripped page markdowns
RECURSIVE JoinPages(_, _, _)
JoinPages(src, lens, i) ==
  IF i > Len(lens) THEN <<>>
  ELSE LET rest == JoinPages(src, lens, i + 1) IN
       IF lens[i] = 0 THEN rest
       ELSE IF rest = <<>> THEN << Token(src, i, lens[i]) >>
       ELSE << Token(src, i, lens[i]), Token("sep", i, 2) >> \o rest

\* An OCR service response: the call raised, or it returned the stripped
\* markdown length of each page it recognised
OcrRaised == [raised |-> TRUE, pages |-> <<>>]
OcrPages(lens) == [raised |-> FALSE, pages |-> lens]

_extract_text_using_ocr_process(resp, src) ==
  IF resp.raised THEN <<>>
  ELSE IF resp.pages # <<>> THEN JoinPages(src, resp.pages, 1)
  ELSE <<>>

(***************************************************************************)
(* PDF classifier.  A pdf is [openable, pages], pages[i] being the length  *)
(* of page i's stripped text layer.                                        *)
(***************************************************************************)
Min(a, b) == IF a < b THEN a ELSE b

\* mutant: only the first page is examined
is_pdf_scanned_first_page_only(pdf) ==
  IF ~pdf.openable THEN FALSE
  ELSE LET pages_to_check == Min(1, Len(pdf.pages))
           text_found == \E n \in 1..pages_to_check :
                            pdf.pages[n] # 0 /\ pdf.pages[n] > ScanThreshold
       IN ~text_found

\* mutant: every page is examined
is_pdf_scanned_all_pages(pdf) ==
  IF ~pdf.openable THEN FALSE
  ELSE LET pages_to_check == Len(pdf.pages)
           text_found == \E n \in 1..pages_to_check :
                            pdf.pages[n] # 0 /\ pdf.pages[n] > ScanThreshold
       IN ~text_found

\* mutant: a PDF that cannot be opened is taken for a scanned one
is_pdf_scanned_unopenable_true(pdf) ==
  IF ~pdf.openable THEN TRUE
  ELSE LET pages_to_check == Min(ScanPages, Len(pdf.pages))
           text_found == \E n \in 1..pages_to_check :
                            pdf.pages[n] # 0 /\ pdf.pages[n] > ScanThreshold
       IN ~text_found

is_pdf_scanned(pdf) ==
  IF ~pdf.openable THEN FALSE
  ELSE LET pages_to_check == Min(ScanPages, Len(pdf.pages))
           text_found == \E n \in 1..pages_to_check :
                            pdf.pages[n] # 0 /\ pdf.pages[n] > ScanThreshold
       IN ~text_found

(***************************************************************************)
(* OCR extractor.  ocr = [direct, page, raster_fails, write_fails]: the    *)
(* response to the whole-document call, the response to each page call,    *)
(* whether convert_from_path raises, whether writing the text file raises. *)
(***************************************************************************)
RECURSIVE PageByPage(_, _, _)
PageByPage(ocr, numPages, n) ==
  IF n > numPages THEN <<>>
  ELSE LET page_text == _extract_text_using_ocr_process(ocr.page[n], "page")
           block == IF page_text # <<>>
                      THEN << Token("marker", n, 16) >> \o
                           [i \in 1..Len(page_text) |->
                              Token("page", n, page_text[i].len)] \o
                           << Token("newline", n, 1) >>
                      ELSE <<>>
       IN block \o PageByPage(ocr, numPages, n + 1)

\* mutant: the whole-document text is never accepted
extract_text_from_scanned_pdf_always_pages(pdf, ocr) ==
  IF ocr.raster_fails THEN <<>> ELSE PageByPage(ocr, Len(pdf.pages), 1)

\* mutant: the whole-document text is returned when the pages give nothing
extract_text_from_scanned_pdf_keeps_direct(pdf, ocr) ==
  LET direct_text == _extract_text_using_ocr_process(ocr.direct, "direct")
      paged == IF ocr.raster_fails THEN <<>> ELSE PageByPage(ocr, Len(pdf.pages), 1)
  IN IF direct_text # <<>> /\ TextLen(direct_text) > DirectThreshold THEN direct_text
     ELSE IF paged # <<>> THEN paged
     ELSE direct_text

extract_text_from_scanned_pdf(pdf, ocr) ==
  LET direct_text == _extract_text_using_ocr_process(ocr.direct, "direct") IN
  IF direct_text # <<>> /\ TextLen(direct_text) > DirectThreshold
    THEN direct_text
  ELSE IF ocr.raster_fails THEN <<>>
  ELSE PageByPage(ocr, Len(pdf.pages), 1)

\* mutant: the file is written and success reported whatever was extracted
save_extracted_text_to_file_unchecked(pdf, ocr, output_text_path) ==
  LET extracted_text == extract_text_from_scanned_pdf(pdf, ocr) IN
  IF ~ocr.write_fails
    THEN [success |-> TRUE, path |-> output_text_path, written |-> extracted_text]
    ELSE [success |-> FALSE, path |-> <<>>, written |-> <<>>]

\* returns [success, path, written]: written is the content put on disk
save_extracted_text_to_file(pdf, ocr, output_text_path) ==
  LET extracted_text == extract_text_from_scanned_pdf(pdf, ocr) IN
  IF extracted_text # <<>> /\ ~ocr.write_fails
    THEN [success |-> TRUE, path |-> output_text_path, written |-> extracted_text]
    ELSE [success |-> FALSE, path |-> <<>>, written |-> <<>>]

convert_and_save_both(input_pdf_path, pdf, ocr) ==
  LET text_output == TextOutputPath(input_pdf_path)
      counted == ~ocr.raster_fails
      saved == save_extracted_text_to_file(pdf, ocr, text_output)
      \* line 334 reads results['pdf_path'], a key that is never set
      errors == IF saved.success THEN << "'pdf_path'" >>
                ELSE << "Failed to extract text to file with Mistral AI OCR process" >>
  IN [success |-> saved.success,
      text_path |-> saved.path,
      errors |-> errors,
      pages_processed |-> IF counted THEN Len(pdf.pages) ELSE 0,
      api_calls_made |-> IF counted THEN 1 ELSE 0,
      written |-> saved.written]

(***************************************************************************)
(* Document loader and text splitter.                                      *)
(***************************************************************************)
PlaceholderLen == 93

\* mutant: a splitter that returns every document in one piece
SplitLens_unsplit(n) == IF n = 0 THEN <<>> ELSE << n >>

\* RecursiveCharacterTextSplitter(chunk_size, chunk_overlap) on a text of n
\* characters without separators: the chunk lengths
RECURSIVE SplitLens(_)
SplitLens(n) ==
  IF n = 0 THEN <<>>
  ELSE IF n <= chunk_size THEN << n >>
  ELSE << chunk_size >> \o SplitLens(n - (chunk_size - chunk_overlap))

Document(n, method) == [len |-> n, processing_method |-> method]

\* text_splitter.split_documents: every chunk inherits its document's metadata
RECURSIVE split_documents(_)
split_documents(documents) ==
  IF documents = <<>> THEN <<>>
  ELSE LET lens == SplitLens(documents[1].len) IN
       [i \in 1..Len(lens) |-> Document(lens[i], documents[1].processing_method)]
         \o split_documents(Tail(documents))

RECURSIVE SumLens(_)
SumLens(lens) == IF lens = <<>> THEN 0 ELSE lens[1] + SumLens(Tail(lens))

\* loader.load() of PyPDFLoader: one document per page
PageDocuments(content, method) ==
  [i \in 1..Len(content.pages) |-> Document(content.pages[i], method)]

\* loader.load() of Docx2txtLoader / UnstructuredHTMLLoader: one document
SingleDocument(content, method) == << Document(SumLens(content.pages), method) >>

\* mutant: the fallback loop is left at the first page whose call gives nothing
OcrCalls_abort_on_page_failure(pdf, ocr) ==
  LET direct_text == _extract_text_using_ocr_process(ocr.direct, "direct")
      failing == { n \in 1..Len(pdf.pages) :
                     _extract_text_using_ocr_process(ocr.page[n], "page") = <<>> }
      last == IF failing = {} THEN Len(pdf.pages)
              ELSE CHOOSE n \in failing : \A m \in failing : n <= m
  IN IF direct_text # <<>> /\ TextLen(direct_text) > DirectThreshold THEN << 0 >>
     ELSE IF ocr.raster_fails THEN << 0 >>
     ELSE << 0 >> \o [n \in 1..last |-> n]

\* the calls of _extract_text_using_ocr_process made by
\* extract_text_from_scanned_pdf, in order: 0 is the whole-document call, n the
\* call for the image of page n; the loop goes on after a failing page
OcrCalls(pdf, ocr) ==
  LET direct_text == _extract_text_using_ocr_process(ocr.direct, "direct") IN
  IF direct_text # <<>> /\ TextLen(direct_text) > DirectThreshold THEN << 0 >>
  ELSE IF ocr.raster_fails THEN << 0 >>
  ELSE << 0 >> \o [n \in 1..Len(pdf.pages) |-> n]

\* the number of calls of the OCR service
OcrCallsMade(pdf, ocr) == Len(OcrCalls(pdf, ocr))

\* lines 65-191, the body of the try block.  Returns [branch, splits, written,
\* text_path, scanned, ocr_text, ocr_calls, raised]: raised tells that a loader
\* or the unsupported-type branch raised
load_and_split_document_body(file_path, content, ocr, processor) ==
  LET none == [branch |-> "unsupported", splits |-> <<>>, written |-> FALSE,
               text_path |-> <<>>, scanned |-> FALSE, ocr_text |-> <<>>,
               ocr_calls |-> 0, raised |-> FALSE]
  IN
  IF endswith(file_path, Chars(".pdf")) THEN
    IF processor # NULL /\ is_pdf_scanned(content) THEN
      LET results == convert_and_save_both(file_path, content, ocr)
          text_content == IF results.success /\ results.text_path # <<>>
                            THEN results.written ELSE <<>>
          documents == IF text_content # <<>>
                         THEN << Document(TextLen(text_content), "mistral_ocr_text_only") >>
                         ELSE << Document(PlaceholderLen, "mistral_ocr_failed") >>
      IN [branch |-> "pdf", splits |-> split_documents(documents),
          written |-> results.success, text_path |-> results.text_path,
          scanned |-> TRUE,
          ocr_text |-> extract_text_from_scanned_pdf(content, ocr),
          ocr_calls |-> OcrCallsMade(content, ocr), raised |-> FALSE]
    ELSE
      [none EXCEPT !.branch = "pdf",
                   !.raised = ~content.openable,
                   !.splits = IF content.openable
                                THEN split_documents(PageDocuments(content, "standard_pdf"))
                                ELSE <<>>]
  ELSE IF endswith(file_path, Chars(".docx")) THEN
      [none EXCEPT !.branch = "docx",
                   !.raised = ~content.openable,
                   !.splits = IF content.openable
                                THEN split_documents(SingleDocument(content, "docx_standard"))
                                ELSE <<>>]
  ELSE IF endswith(file_path, Chars(".html")) THEN
      [none EXCEPT !.branch = "html",
                   !.raised = ~content.openable,
                   !.splits = IF content.openable
                                THEN split_documents(SingleDocument(content, "html_standard"))
                                ELSE <<>>]
  ELSE [none EXCEPT !.raised = TRUE]

\* mutant: no except clause around the body
load_and_split_document_uncaught(file_path, content, ocr, processor) ==
  load_and_split_document_body(file_path, content, ocr, processor)

\* lines 204-206: `except Exception: return []` applied to the outcome of the body
ReturnEmptyOnException(body) ==
  IF body.raised THEN [body EXCEPT !.splits = <<>>, !.raised = FALSE] ELSE body

\* lines 63-206: the body inside its try block
load_and_split_document(file_path, content, ocr, processor) ==
  ReturnEmptyOnException(load_and_split_document_body(file_path, content, ocr, processor))

(***************************************************************************)
(* Indexer.                                                                *)
(***************************************************************************)
Chunk(file_id, i, total, split) ==
  [file_id |-> file_id, chunk_index |-> i, total_chunks |-> total,
   processing_method |-> split.processing_method]

\* returns [success, chunks]: chunks are what vectorstore.add_documents stored
index_document_to_chroma(file_id, loaded, store_fails) ==
  LET splits == loaded.splits IN
  IF splits = <<>> THEN [success |-> FALSE, chunks |-> {}]
  ELSE IF store_fails THEN [success |-> FALSE, chunks |-> {}]
  ELSE [success |-> TRUE,
        chunks |-> { Chunk(file_id, i - 1, Len(splits), splits[i]) : i \in 1..Len(splits) }]

\* vectorstore.get(where={"file_id": file_id}) / _collection.delete(where=...)
ChunksOf(store, file_id) == { c \in store : c.file_id = file_id }

\* mutant: finding no chunk to delete is reported as a failure
delete_doc_from_chroma_missing_fails(store, file_id, store_fails) ==
  IF store_fails \/ ChunksOf(store, file_id) = {}
    THEN [success |-> FALSE, store |-> store]
    ELSE [success |-> TRUE, store |-> store \ ChunksOf(store, file_id)]

delete_doc_from_chroma(store, file_id, store_fails) ==
  IF store_fails THEN [success |-> FALSE, store |-> store]
  ELSE [success |-> TRUE, store |-> store \ ChunksOf(store, file_id)]

(***************************************************************************)
(* Document store (table document_store).                                  *)
(***************************************************************************)
OcrColumns == { "is_scanned_pdf", "converted_pdf_path", "extracted_text_path",
                "ocr_conversion_success", "ocr_processing_time", "total_pages",
                "total_chunks", "ocr_confidence_score" }

NewRow(filename, status) ==
  [filename |-> filename, processing_status |-> status,
   processing_method |-> NULL, error_message |-> NULL,
   processing_start_time |-> NULL, processing_end_time |-> NULL,
   is_scanned_pdf |-> Some(0), converted_pdf_path |-> NULL,
   extracted_text_path |-> NULL, ocr_conversion_success |-> Some(0),
   ocr_processing_time |-> NULL, temp_file_path |-> NULL,
   total_pages |-> NULL, total_chunks |-> NULL, ocr_confidence_score |-> NULL]

\* mutant: a plain INTEGER PRIMARY KEY, which gives the largest id in the table
\* plus one
lastrowid_without_autoincrement(store, seq) ==
  IF DOMAIN store = {} THEN 1
  ELSE (CHOOSE m \in DOMAIN store : \A i \in DOMAIN store : i <= m) + 1

\* cursor.lastrowid after the INSERT: id is INTEGER PRIMARY KEY AUTOINCREMENT,
\* the next value of the table's sequence, whatever rows were deleted
lastrowid(store, seq) == seq

\* mutant: the INSERT is not committed before the handler goes on
insert_document_record_uncommitted(store, id, filename, status) == store

\* INSERT INTO document_store: the row and cursor.lastrowid
insert_document_record(store, id, filename, status) ==
  [i \in DOMAIN store \cup {id} |->
     IF i = id THEN NewRow(filename, status) ELSE store[i]]

NoOcrData == [k \in {} |-> NULL]

\* UPDATE document_store SET ... WHERE id = ?: no row, no change
update_document_processing_status(store, file_id, status, error_message, processing_method, ocr_data) ==
  IF file_id \notin DOMAIN store THEN store
  ELSE
    LET row == store[file_id]
        updated == [f \in DOMAIN row |->
          IF f = "processing_status" THEN status
          ELSE IF f = "processing_start_time" /\ status = "processing" THEN Some("now")
          ELSE IF f = "processing_end_time" /\ status \in {"completed", "failed"}
                 THEN Some("now")
          ELSE IF f = "error_message" /\ error_message # NULL THEN error_message
          ELSE IF f = "processing_method" /\ processing_method # NULL
                 THEN processing_method
          ELSE IF f \in OcrColumns /\ f \in DOMAIN ocr_data THEN ocr_data[f]
          ELSE row[f]]
    IN [store EXCEPT ![file_id] = updated]

\* files removed by delete_document_record, and the store without the row
CleanupPaths(store, file_id) ==
  IF file_id \in DOMAIN store
    THEN { store[file_id][f][1] :
             f \in { g \in {"converted_pdf_path", "extracted_text_path", "temp_file_path"} :
                       store[file_id][g] # NULL } }
    ELSE {}

delete_document_record(store, file_id) ==
  [i \in DOMAIN store \ {file_id} |-> store[i]]

(***************************************************************************)
(* State.                                                                  *)
(***************************************************************************)
VARIABLES
  document_store,   \* rows of table document_store, by id
  next_id,          \* the AUTOINCREMENT sequence of document_store
  next_uuid,        \* uuid4 values handed out so far, plus one
  files,            \* paths that exist on disk
  vectorstore,      \* chunks in the Chroma collection
  ocr_processor,    \* module-level OCR client, NULL when its construction failed
  queue,            \* work queue of the ThreadPoolExecutor
  running,          \* calls of process_document_background being executed
  futures,          \* outcome of every finished call, by file_id
  loaded,           \* what the indexing call of a document did, by file_id
  upload,           \* the /upload-doc request being handled
  deleting,         \* the /delete-doc request being handled
  response,         \* the last HTTP response sent
  faults,           \* exceptions raised so far by the stores and the file system
  call,             \* a single function call observed on its own: [fn, arg, ret]
  application_logs, \* rows of table application_logs, in the order of their ids
  now,              \* CURRENT_TIMESTAMP of the database, in seconds
  chats             \* the /chat requests received so far, each with its position

vars == << document_store, next_id, next_uuid, files, vectorstore, ocr_processor,
           queue, running, futures, loaded, upload, deleting, response, faults,
           call, application_logs, now, chats >>

chat_vars == << application_logs, now, chats >>

Idle == [pc |-> "idle"]
NoCall == [fn |-> "none", arg |-> NULL, ret |-> <<>>]
NoResponse == [op |-> "none", code |-> 0, body |-> "none", file_id |-> 0,
               status |-> "none"]
Response(op, code, body, file_id, status) ==
  [op |-> op, code |-> code, body |-> body, file_id |-> file_id, status |-> status]

EmptyMap == [i \in {} |-> NULL]
Put(f, k, v) == [i \in DOMAIN f \cup {k} |-> IF i = k THEN v ELSE f[i]]

\* a store or file-system call raises
Fault == faults < MaxFaults /\ faults' = faults + 1

Init ==
  /\ document_store = EmptyMap
  /\ next_id = 1
  /\ next_uuid = 1
  /\ files = {}
  /\ vectorstore = {}
  /\ ocr_processor = Some("MistralOCRProcessor")
  /\ queue = <<>>
  /\ running = {}
  /\ futures = EmptyMap
  /\ loaded = EmptyMap
  /\ upload = Idle
  /\ deleting = Idle
  /\ response = NoResponse
  /\ faults = 0
  /\ call = NoCall
  /\ application_logs = <<>>
  /\ now = 0
  /\ chats = <<>>

(***************************************************************************)
(* POST /upload-doc (upload_and_index_document).                           *)
(***************************************************************************)
\* the client sends one request at a time and reads its response first
UploadRequest(filename) ==
  /\ UNCHANGED << call, chat_vars >>
  /\ upload.pc = "idle"
  /\ deleting.pc = "idle"
  /\ next_uuid <= MaxUploads
  /\ upload' = [pc |-> "check", filename |-> filename]
  /\ response' = NoResponse
  /\ UNCHANGED << document_store, next_id, next_uuid, files, vectorstore,
                  ocr_processor, queue, running, futures, loaded, deleting,
                  faults >>

\* lines 121-139: the extension check, the copy of the upload to the temporary
\* file and the insertion of the pending record
UploadCheck ==
  /\ UNCHANGED << call, chat_vars >>
  /\ upload.pc = "check"
  /\ LET file_extension == lower(splitext(upload.filename)[2])
         temp_file_path == TempPath(next_uuid, upload.filename)
     IN IF file_extension \notin allowed_extensions
          THEN /\ response' = Response("upload", 400, "Unsupported file type", 0, "none")
               /\ upload' = Idle
               /\ UNCHANGED << files, next_uuid, document_store, next_id, faults >>
          ELSE /\ next_uuid' = next_uuid + 1
               /\ \/ /\ files' = files \cup { temp_file_path }
                     /\ document_store' = insert_document_record(
                            document_store, lastrowid(document_store, next_id),
                            upload.filename, "pending")
                     /\ next_id' = next_id + 1
                     /\ upload' = [pc |-> "submit", filename |-> upload.filename,
                                   temp_file_path |-> temp_file_path,
                                   file_id |-> lastrowid(document_store, next_id)]
                     /\ UNCHANGED << response, faults >>
                  \/ \* open(), copyfileobj or the INSERT raised: the handler
                     \* removes the temporary file
                     /\ Fault
                     /\ files' = files \ { temp_file_path }
                     /\ upload' = Idle
                     /\ response' = Response("upload", 500, "Failed to upload", 0, "none")
                     /\ UNCHANGED << document_store, next_id >>
  /\ UNCHANGED << vectorstore, ocr_processor, queue, running, futures, loaded,
                  deleting >>

\* lines 142-152: executor.submit and the response
UploadSubmit ==
  /\ UNCHANGED << call, chat_vars >>
  /\ upload.pc = "submit"
  /\ queue' = Append(queue, [file_path |-> upload.temp_file_path,
                             file_id |-> upload.file_id,
                             filename |-> upload.filename])
  /\ response' = Response("upload", 200, "queued", upload.file_id, "pending")
  /\ upload' = Idle
  /\ UNCHANGED << document_store, next_id, next_uuid, files, vectorstore,
                  ocr_processor, running, futures, loaded, deleting, faults >>

(***************************************************************************)
(* What the environment supplies to one indexing call: the content of the  *)
(* uploaded file and the responses of the OCR service and of the stores.   *)
(***************************************************************************)
PageTexts == { 0, 1500 }

Contents ==
  { [openable |-> FALSE, pages |-> <<>>] } \cup
  { [openable |-> TRUE, pages |-> p] :
      p \in UNION { [1..n -> PageTexts] : n \in 1..MaxPages } }

DirectResponses == { OcrRaised, OcrPages(<<>>), OcrPages(<< 40 >>), OcrPages(<< 101 >>) }
PageResponses == { OcrRaised, OcrPages(<< 10 >>) }

OcrEnvs(numPages) ==
  [direct : DirectResponses, page : [1..numPages -> PageResponses],
   raster_fails : BOOLEAN, write_fails : BOOLEAN]

\* the OCR service is called only on the scanned-PDF path of the loader
UsesOcr(file_path, content, processor) ==
  endswith(file_path, Chars(".pdf")) /\ processor # NULL /\ is_pdf_scanned(content)

NoOcr == [direct |-> OcrRaised, page |-> <<>>, raster_fails |-> FALSE,
          write_fails |-> FALSE]

(***************************************************************************)
(* Worker pool: process_document_background.                               *)
(***************************************************************************)
Step(t, pc) == [t EXCEPT !.pc = pc]

\* mutant: a pool that starts a thread for every queued call
TaskStart_unbounded ==
  /\ UNCHANGED << call, chat_vars >>
  /\ queue # <<>>
  /\ running' = running \cup
       { [file_path |-> Head(queue).file_path, file_id |-> Head(queue).file_id,
          filename |-> Head(queue).filename, pc |-> "mark_processing",
          success |-> FALSE, exc |-> FALSE] }
  /\ queue' = Tail(queue)
  /\ UNCHANGED << document_store, next_id, next_uuid, files, vectorstore,
                  ocr_processor, futures, loaded, upload, deleting, response, faults >>

\* a worker thread of the executor takes the next work item
TaskStart ==
  /\ UNCHANGED << call, chat_vars >>
  /\ queue # <<>>
  /\ Cardinality(running) < max_workers
  /\ running' = running \cup
       { [file_path |-> Head(queue).file_path, file_id |-> Head(queue).file_id,
          filename |-> Head(queue).filename, pc |-> "mark_processing",
          success |-> FALSE, exc |-> FALSE] }
  /\ queue' = Tail(queue)
  /\ UNCHANGED << document_store, next_id, next_uuid, files, vectorstore,
                  ocr_processor, futures, loaded, upload, deleting, response, faults >>

\* line 94: update_document_processing_status(file_id, "processing")
MarkProcessing(t) ==
  /\ UNCHANGED << call, chat_vars >>
  /\ t.pc = "mark_processing"
  /\ \/ /\ document_store' = update_document_processing_status(
               document_store, t.file_id, "processing", NULL, NULL, NoOcrData)
        /\ running' = (running \ {t}) \cup { Step(t, "index") }
        /\ UNCHANGED faults
     \/ \* the update raised
        /\ Fault
        /\ running' = (running \ {t}) \cup { Step(t, "except") }
        /\ UNCHANGED document_store
  /\ UNCHANGED << next_id, next_uuid, files, vectorstore, ocr_processor, queue,
                  futures, loaded, upload, deleting, response >>

\* what one call of index_document_to_chroma leaves behind: l is what the
\* loader returned, r what the indexer returned
Indexed(t, l, r, store_fails) ==
  /\ files' = IF l.written THEN files \cup { l.text_path } ELSE files
  /\ vectorstore' = vectorstore \cup r.chunks
  /\ loaded' = Put(loaded, t.file_id,
                   [branch |-> l.branch, scanned |-> l.scanned,
                    ocr_text |-> l.ocr_text # <<>>,
                    splits |-> Len(l.splits),
                    chunk_lens |-> [i \in 1..Len(l.splits) |-> l.splits[i].len],
                    text_path |-> l.text_path,
                    store_raised |-> l.splits # <<>> /\ store_fails,
                    success |-> r.success])
  /\ running' = (running \ {t}) \cup
                  { [t EXCEPT !.pc = "mark_final", !.success = r.success] }

IndexLoaded(t, l, store_fails) ==
  Indexed(t, l, index_document_to_chroma(t.file_id, l, store_fails), store_fails)

\* line 97: success = index_document_to_chroma(file_path, file_id)
Index(t) ==
  /\ UNCHANGED << call, chat_vars >>
  /\ t.pc = "index"
  /\ \E content \in Contents, store_fails \in BOOLEAN :
     \E ocr \in IF UsesOcr(t.file_path, content, ocr_processor)
                  THEN OcrEnvs(Len(content.pages)) ELSE { NoOcr } :
       IndexLoaded(t, load_and_split_document(t.file_path, content, ocr, ocr_processor),
                   store_fails)
  /\ UNCHANGED << document_store, next_id, next_uuid, ocr_processor, queue,
                  futures, upload, deleting, response, faults >>

\* lines 99-104: the status update to completed or failed
MarkFinal(t) ==
  /\ UNCHANGED << call, chat_vars >>
  /\ t.pc = "mark_final"
  /\ \/ /\ document_store' = update_document_processing_status(
               document_store, t.file_id,
               IF t.success THEN "completed" ELSE "failed", NULL, NULL, NoOcrData)
        /\ running' = (running \ {t}) \cup { Step(t, "finally") }
        /\ UNCHANGED faults
     \/ /\ Fault
        /\ running' = (running \ {t}) \cup { Step(t, "except") }
        /\ UNCHANGED document_store
  /\ UNCHANGED << next_id, next_uuid, files, vectorstore, ocr_processor, queue,
                  futures, loaded, upload, deleting, response >>

\* lines 106-108: the exception handler
Except(t) ==
  /\ UNCHANGED << call, chat_vars >>
  /\ t.pc = "except"
  /\ \/ /\ document_store' = update_document_processing_status(
               document_store, t.file_id, "failed", NULL, NULL, NoOcrData)
        /\ running' = (running \ {t}) \cup { Step(t, "finally") }
        /\ UNCHANGED faults
     \/ \* the update in the handler raised: the exception stays pending
        /\ Fault
        /\ running' = (running \ {t}) \cup { [t EXCEPT !.pc = "finally", !.exc = TRUE] }
        /\ UNCHANGED document_store
  /\ UNCHANGED << next_id, next_uuid, files, vectorstore, ocr_processor, queue,
                  futures, loaded, upload, deleting, response >>

\* mutant: the temporary file is removed at the end of the try body and of the
\* handler instead of in a finally block
Finally_cleanup_in_try(t) ==
  /\ UNCHANGED << call, chat_vars >>
  /\ t.pc = "finally"
  /\ running' = running \ {t}
  /\ files' = IF t.exc THEN files ELSE files \ { t.file_path }
  /\ futures' = Put(futures, t.file_id, IF t.exc THEN "raised" ELSE "returned")
  /\ UNCHANGED << document_store, next_id, next_uuid, vectorstore, ocr_processor,
                  queue, loaded, upload, deleting, response, faults >>

\* lines 110-113: the finally block, then the call ends
Finally(t) ==
  /\ UNCHANGED << call, chat_vars >>
  /\ t.pc = "finally"
  /\ running' = running \ {t}
  /\ \/ /\ files' = files \ { t.file_path }
        /\ futures' = Put(futures, t.file_id, IF t.exc THEN "raised" ELSE "returned")
        /\ UNCHANGED faults
     \/ \* os.remove raised
        /\ t.file_path \in files
        /\ Fault
        /\ futures' = Put(futures, t.file_id, "raised")
        /\ UNCHANGED files
  /\ UNCHANGED << document_store, next_id, next_uuid, vectorstore, ocr_processor,
                  queue, loaded, upload, deleting, response >>

(***************************************************************************)
(* POST /delete-doc (delete_document).                                     *)
(***************************************************************************)
\* mutant: the result of delete_doc_from_chroma is not looked at
DeleteChroma_ignoring_result(file_id) ==
  /\ UNCHANGED << call, chat_vars >>
  /\ deleting.pc = "idle"
  /\ upload.pc = "idle"
  /\ \/ /\ vectorstore' = delete_doc_from_chroma(vectorstore, file_id, FALSE).store
        /\ UNCHANGED faults
     \/ /\ Fault
        /\ vectorstore' = delete_doc_from_chroma(vectorstore, file_id, TRUE).store
  /\ deleting' = [pc |-> "db", file_id |-> file_id]
  /\ response' = NoResponse
  /\ UNCHANGED << document_store, next_id, next_uuid, files, ocr_processor, queue,
                  running, futures, loaded, upload >>

\* lines 224-247: delete_doc_from_chroma and the branch on its result
DeleteChroma(file_id) ==
  /\ UNCHANGED << call, chat_vars >>
  /\ deleting.pc = "idle"
  /\ upload.pc = "idle"
  /\ \/ /\ vectorstore' = delete_doc_from_chroma(vectorstore, file_id, FALSE).store
        /\ deleting' = [pc |-> "db", file_id |-> file_id]
        /\ response' = NoResponse
        /\ UNCHANGED faults
     \/ /\ Fault
        /\ vectorstore' = delete_doc_from_chroma(vectorstore, file_id, TRUE).store
        /\ deleting' = Idle
        /\ response' = Response("delete", 200, "error: Chroma", file_id, "none")
  /\ UNCHANGED << document_store, next_id, next_uuid, files, ocr_processor, queue,
                  running, futures, loaded, upload >>

\* lines 228-252: delete_document_record and the response
DeleteRecord ==
  /\ UNCHANGED << call, chat_vars >>
  /\ deleting.pc = "db"
  /\ \/ /\ files' = files \ CleanupPaths(document_store, deleting.file_id)
        /\ document_store' = delete_document_record(document_store, deleting.file_id)
        /\ response' = Response("delete", 200, "message: deleted", deleting.file_id, "none")
        /\ UNCHANGED faults
     \/ \* the SELECT or the DELETE raised
        /\ Fault
        /\ response' = Response("delete", 500, "Error deleting document",
                                deleting.file_id, "none")
        /\ UNCHANGED << files, document_store >>
  /\ deleting' = Idle
  /\ UNCHANGED << next_id, next_uuid, vectorstore, ocr_processor, queue, running,
                  futures, loaded, upload >>

Next ==
  \/ \E filename \in FileNames : UploadRequest(filename)
  \/ UploadCheck
  \/ UploadSubmit
  \/ TaskStart
  \/ \E t \in running : MarkProcessing(t)
  \/ \E t \in running : Index(t)
  \/ \E t \in running : MarkFinal(t)
  \/ \E t \in running : Except(t)
  \/ \E t \in running : Finally(t)
  \/ \E file_id \in 1..MaxUploads : DeleteChroma(file_id)
  \/ DeleteRecord

Spec == Init /\ [][Next]_vars

(***************************************************************************)
(* The worker pool under more uploads than it has threads: uploads of one  *)
(* docx name, no delete requests.                                          *)
(***************************************************************************)
PoolUploadRequest(filename) ==
  /\ UNCHANGED << call, chat_vars >>
  /\ upload.pc = "idle"
  /\ next_uuid <= MaxPoolUploads
  /\ upload' = [pc |-> "check", filename |-> filename]
  /\ response' = NoResponse
  /\ UNCHANGED << document_store, next_id, next_uuid, files, vectorstore,
                  ocr_processor, queue, running, futures, loaded, deleting, faults >>

PoolNext ==
  \/ PoolUploadRequest(Chars("a.docx"))
  \/ UploadCheck
  \/ UploadSubmit
  \/ TaskStart
  \/ \E t \in running : MarkProcessing(t)
  \/ \E t \in running : Index(t)
  \/ \E t \in running : MarkFinal(t)
  \/ \E t \in running : Except(t)
  \/ \E t \in running : Finally(t)

PoolSpec == Init /\ [][PoolNext]_vars

(***************************************************************************)
(* The end-to-end scenario of a text-based PDF: every upload is a.pdf with  *)
(* one page of 1500 characters, and neither the stores nor the file system  *)
(* raise.                                                                   *)
(***************************************************************************)
TextPdf1500 == [openable |-> TRUE, pages |-> << 1500 >>]

ScenarioInit ==
  /\ document_store = EmptyMap
  /\ next_id = 1
  /\ next_uuid = 1
  /\ files = {}
  /\ vectorstore = {}
  /\ ocr_processor = Some("MistralOCRProcessor")
  /\ queue = <<>>
  /\ running = {}
  /\ futures = EmptyMap
  /\ loaded = EmptyMap
  /\ upload = Idle
  /\ deleting = Idle
  /\ response = NoResponse
  /\ faults = MaxFaults
  /\ call = NoCall
  /\ application_logs = <<>>
  /\ now = 0
  /\ chats = <<>>

ScenarioIndex(t) ==
  /\ UNCHANGED << call, chat_vars >>
  /\ t.pc = "index"
  /\ IndexLoaded(t, load_and_split_document(t.file_path, TextPdf1500, NoOcr, ocr_processor),
                 FALSE)
  /\ UNCHANGED << document_store, next_id, next_uuid, ocr_processor, queue,
                  futures, upload, deleting, response, faults >>

ScenarioNext ==
  \/ PoolUploadRequest(Chars("a.pdf"))
  \/ UploadCheck
  \/ UploadSubmit
  \/ TaskStart
  \/ \E t \in running : MarkProcessing(t)
  \/ \E t \in running : ScenarioIndex(t)
  \/ \E t \in running : MarkFinal(t)
  \/ \E t \in running : Finally(t)

ScenarioSpec == ScenarioInit /\ [][ScenarioNext]_vars

(***************************************************************************)
(* Single calls.  One function of the service is called on an input drawn  *)
(* from a bounded set and its return value is kept in call.ret, the         *)
(* sequence of the values returned so far; the service itself stays as it   *)
(* is after construction.                                                   *)
(***************************************************************************)
app_vars == << document_store, next_id, next_uuid, files, vectorstore, ocr_processor,
               queue, running, futures, loaded, upload, deleting, response, faults >>

ScanPageTexts == { 0, 50, 51 }

ScanPdfs ==
  { [openable |-> FALSE, pages |-> <<>>] } \cup
  { [openable |-> TRUE, pages |-> p] :
      p \in UNION { [1..n -> ScanPageTexts] : n \in 1..MaxScanPages } }

\* file names the upload handler lets through
AcceptedNames == { f \in FileNames : lower(splitext(f)[2]) \in allowed_extensions }

LoadArgs ==
  UNION { { [file_path |-> TempPath(1, f), content |-> c, ocr |-> o, processor |-> p] :
              o \in IF UsesOcr(TempPath(1, f), c, p)
                      THEN OcrEnvs(Len(c.pages)) ELSE { NoOcr } } :
          f \in AcceptedNames, c \in Contents,
          p \in { NULL, Some("MistralOCRProcessor") } }

\* convert_and_save_both is called on the scanned-PDF path only
ConvertArgs ==
  UNION { { [input_pdf_path |-> TempPath(1, Chars("a.pdf")), pdf |-> c, ocr |-> o] :
              o \in OcrEnvs(Len(c.pages)) } :
          c \in { x \in Contents : is_pdf_scanned(x) } }

\* a vector store filled by index_document_to_chroma: for each document no
\* chunk, one chunk or two chunks
StoredTexts == { 0, 500, 1500 }

StoreOf(lens) ==
  UNION { index_document_to_chroma(d,
            [splits |-> split_documents(<< Document(lens[d], "docx_standard") >>)],
            FALSE).chunks : d \in DOMAIN lens }

DeleteArgs ==
  { [store |-> StoreOf(lens), file_id |-> d, store_fails |-> sf] :
      lens \in [1..MaxUploads -> StoredTexts], d \in 1..(MaxUploads + 1),
      sf \in [1..2 -> BOOLEAN] }

\* scanned PDFs and the answers of the OCR service to the extractor
OcrPdfs ==
  { [openable |-> TRUE, pages |-> [i \in 1..n |-> 0]] : n \in 1..MaxOcrPages }

ExtractDirectResponses ==
  DirectResponses \cup { OcrPages(<< 100 >>), OcrPages(<< 60, 60 >>) }

ExtractPageResponses == PageResponses \cup { OcrPages(<< 0 >>) }

ExtractArgs ==
  UNION { { [pdf |-> p, ocr |-> o] :
              o \in [direct : ExtractDirectResponses,
                     page : [1..Len(p.pages) -> ExtractPageResponses],
                     raster_fails : BOOLEAN, write_fails : { FALSE }] } :
          p \in OcrPdfs }

Calls ==
  { [fn |-> "is_pdf_scanned", arg |-> a, ret |-> <<>>] : a \in ScanPdfs } \cup
  { [fn |-> "load_and_split_document", arg |-> a, ret |-> <<>>] : a \in LoadArgs } \cup
  { [fn |-> "convert_and_save_both", arg |-> a, ret |-> <<>>] : a \in ConvertArgs } \cup
  { [fn |-> "delete_doc_from_chroma", arg |-> a, ret |-> <<>>] : a \in DeleteArgs } \cup
  { [fn |-> "extract_text_from_scanned_pdf", arg |-> a, ret |-> <<>>] : a \in ExtractArgs }

FnInit ==
  /\ document_store = EmptyMap
  /\ next_id = 1
  /\ next_uuid = 1
  /\ files = {}
  /\ vectorstore = {}
  /\ ocr_processor = Some("MistralOCRProcessor")
  /\ queue = <<>>
  /\ running = {}
  /\ futures = EmptyMap
  /\ loaded = EmptyMap
  /\ upload = Idle
  /\ deleting = Idle
  /\ response = NoResponse
  /\ faults = 0
  /\ call \in Calls
  /\ application_logs = <<>>
  /\ now = 0
  /\ chats = <<>>

Returns(v) == call' = [call EXCEPT !.ret = Append(call.ret, v)]

CallIsPdfScanned ==
  /\ call.fn = "is_pdf_scanned" /\ call.ret = <<>>
  /\ Returns(is_pdf_scanned(call.arg))
  /\ UNCHANGED << app_vars, chat_vars >>

CallLoadAndSplitDocument ==
  /\ call.fn = "load_and_split_document" /\ call.ret = <<>>
  /\ Returns(load_and_split_document(call.arg.file_path, call.arg.content,
                                      call.arg.ocr, call.arg.processor))
  /\ UNCHANGED << app_vars, chat_vars >>

CallConvertAndSaveBoth ==
  /\ call.fn = "convert_and_save_both" /\ call.ret = <<>>
  /\ Returns(convert_and_save_both(call.arg.input_pdf_path, call.arg.pdf, call.arg.ocr))
  /\ UNCHANGED << app_vars, chat_vars >>

\* the text returned and the calls of the OCR service made on the way
CallExtractTextFromScannedPdf ==
  /\ call.fn = "extract_text_from_scanned_pdf" /\ call.ret = <<>>
  /\ Returns([text |-> extract_text_from_scanned_pdf(call.arg.pdf, call.arg.ocr),
              calls |-> OcrCalls(call.arg.pdf, call.arg.ocr)])
  /\ UNCHANGED << app_vars, chat_vars >>

\* delete_doc_from_chroma, called once and then once more on the store the
\* first call left
CallDeleteDocFromChroma ==
  /\ call.fn = "delete_doc_from_chroma" /\ Len(call.ret) < 2
  /\ LET n == Len(call.ret) + 1
         store == IF n = 1 THEN call.arg.store ELSE call.ret[1].store
     IN Returns(delete_doc_from_chroma(store, call.arg.file_id, call.arg.store_fails[n]))
  /\ UNCHANGED << app_vars, chat_vars >>

FnNext ==
  \/ CallIsPdfScanned
  \/ CallLoadAndSplitDocument
  \/ CallConvertAndSaveBoth
  \/ CallDeleteDocFromChroma
  \/ CallExtractTextFromScannedPdf

FnSpec == FnInit /\ [][FnNext]_vars

(***************************************************************************)
(* Properties.                                                             *)
(***************************************************************************)
Status(store, d) == store[d].processing_status

Terminal == { "completed", "failed" }

AllowedTransitions ==
  { << "pending", "processing" >>, << "processing", "completed" >>,
    << "processing", "failed" >> }

\* C1: the stored processing_status of a document changes only by
\* pending -> processing, processing -> completed and processing -> failed,
\* also when a status update raises.
C1_StatusTransitions ==
  [][\A d \in DOMAIN document_store \cap DOMAIN document_store' :
       \/ Status(document_store', d) = Status(document_store, d)
       \/ << Status(document_store, d), Status(document_store', d) >>
            \in AllowedTransitions]_vars

\* C2: every accepted document ends completed or failed.  Only its own call of
\* process_document_background writes its status, so once that call has ended
\* the stored status of the document must be terminal.
C2_FinishedIsTerminal ==
  \A d \in DOMAIN futures \cap DOMAIN document_store :
    Status(document_store, d) \in Terminal

\* C3: no call of process_document_background ends by raising into the
\* worker pool.
C3_NoExceptionEscapes ==
  \A d \in DOMAIN futures : futures[d] = "returned"

\* C4: a scanned PDF for which neither OCR tier produced any text has no
\* chunk in the vector store and is never completed.
C4_ScannedWithoutTextFails ==
  \A d \in DOMAIN loaded :
    (loaded[d].scanned /\ ~loaded[d].ocr_text) =>
      /\ ChunksOf(vectorstore, d) = {}
      /\ d \in DOMAIN document_store => Status(document_store, d) # "completed"

\* C5: a delete-doc request removes neither the record nor the chunks of a
\* document whose status is pending or processing.
C5_DeleteOnlyTerminal ==
  [][\A d \in DOMAIN document_store :
       Status(document_store, d) \in { "pending", "processing" } =>
         /\ d \in DOMAIN document_store'
         /\ ChunksOf(vectorstore, d) \subseteq vectorstore']_vars

\* C6: every chunk in the vector store carries the file_id of a document
\* whose record exists in the document store.
C6_ChunksHaveDocuments ==
  \A c \in vectorstore : c.file_id \in DOMAIN document_store

\* C7: the total_chunks field of a completed document equals the number of
\* chunks stored for it, which is the total carried by each of them, their
\* chunk_index values being 0..total-1.
C7_TotalChunksRecorded ==
  \A d \in DOMAIN document_store :
    Status(document_store, d) = "completed" =>
      LET n == Cardinality(ChunksOf(vectorstore, d)) IN
      /\ document_store[d].total_chunks = Some(n)
      /\ \A c \in ChunksOf(vectorstore, d) : c.total_chunks = n
      /\ { c.chunk_index : c \in ChunksOf(vectorstore, d) } = 0..(n - 1)

\* C8: the loader dispatches every accepted upload to its pdf, docx or html
\* branch and never rejects it as an unsupported file type.
C8_AcceptedIsDispatched ==
  \A d \in DOMAIN loaded : loaded[d].branch \in { "pdf", "docx", "html" }

SupportedExtensions == { Chars(".pdf"), Chars(".docx"), Chars(".html") }
Unsupported(filename) == lower(splitext(filename)[2]) \notin SupportedExtensions

\* C9: an upload whose extension, compared without regard to letter case, is
\* not .pdf, .docx or .html is answered with the unsupported-type error 400,
\* and no record, temporary file or background task comes of it.
C9_UnsupportedRejected ==
  [][(upload.pc = "check" /\ upload' # upload /\ Unsupported(upload.filename)) =>
       /\ upload'.pc = "idle"
       /\ response'.op = "upload" /\ response'.code = 400
       /\ response'.body = "Unsupported file type"
       /\ UNCHANGED << document_store, next_id, files, queue, running, futures,
                       vectorstore >>]_vars

C9_Witness ==
  /\ response.op = "upload" /\ response.code = 400
  /\ upload.pc = "idle"

\* tasks handed to the executor so far
Submitted ==
  { queue[i].file_id : i \in 1..Len(queue) } \cup { t.file_id : t \in running }
    \cup DOMAIN futures

\* C10: when the upload handler reaches executor.submit the record of the
\* document is stored with status pending and no task exists for it, and the
\* response is sent with status pending and the new file_id while the task is
\* still waiting in the queue, before any step of its processing.
C10_PendingBeforeSubmit ==
  [][/\ (upload'.pc = "submit" /\ upload.pc # "submit") =>
          /\ upload'.file_id \in DOMAIN document_store'
          /\ Status(document_store', upload'.file_id) = "pending"
          /\ upload'.file_id \notin Submitted'
     /\ (upload.pc = "submit" /\ upload'.pc # "submit") =>
          /\ response' = Response("upload", 200, "queued", upload.file_id, "pending")
          /\ \E i \in 1..Len(queue') : queue'[i].file_id = upload.file_id
          /\ upload.file_id \notin DOMAIN loaded' \cup DOMAIN futures'
          /\ \A t \in running' : t.file_id # upload.file_id]_vars

C10_Witness ==
  /\ response.op = "upload" /\ response.code = 200 /\ response.status = "pending"
  /\ response.file_id \in DOMAIN document_store
  /\ Status(document_store, response.file_id) = "pending"
  /\ \E i \in 1..Len(queue) : queue[i].file_id = response.file_id

\* the steps in which the call of process_document_background for task t ends
Finishes(t) == t \in running /\ t.pc = "finally" /\ t \notin running'

C13_MethodAndErrorRecorded ==
  \A d \in DOMAIN document_store :
    /\ Status(document_store, d) \in Terminal =>
         document_store[d].processing_method # NULL
    /\ Status(document_store, d) = "failed" =>
         document_store[d].error_message # NULL

\* C14: index_document_to_chroma returns true only if it produced at least one
\* chunk and the store write did not raise; a document is completed only if
\* that call returned true; and once the call of process_document_background
\* has ended for a document whose chunk sequence was empty or whose store
\* write raised, its status is failed.
C14_CompletedOnlyIfIndexed ==
  /\ \A d \in DOMAIN loaded :
        loaded[d].success => (loaded[d].splits >= 1 /\ ~loaded[d].store_raised)
  /\ \A d \in DOMAIN document_store :
        Status(document_store, d) = "completed" =>
          (d \in DOMAIN loaded /\ loaded[d].success)
  /\ \A d \in DOMAIN futures \cap DOMAIN loaded \cap DOMAIN document_store :
        (loaded[d].splits = 0 \/ loaded[d].store_raised) =>
          Status(document_store, d) = "failed"

\* documents a worker is processing: marked processing by a call of
\* process_document_background that has not ended
BeingProcessed ==
  { d \in DOMAIN document_store :
      Status(document_store, d) = "processing" /\ d \notin DOMAIN futures }

Returned(fn) == call.fn = fn /\ call.ret # <<>>

\* the pages is_pdf_scanned is to look at
FirstPages(pdf) == 1..Min(ScanPages, Len(pdf.pages))

\* C15 as stated: a PDF with 50 or more characters of extractable text on at
\* least one of its first 3 pages is classified as not scanned.
C15_FiftyCharsNotScanned ==
  (/\ Returned("is_pdf_scanned")
   /\ call.arg.openable
   /\ \E n \in FirstPages(call.arg) : call.arg.pages[n] >= 50)
    => call.ret[1] = FALSE

\* C15: a PDF with more than 50 characters of extractable text on at least
\* one of its first 3 pages is classified as not scanned.
C15_OverFiftyCharsNotScanned ==
  (/\ Returned("is_pdf_scanned")
   /\ call.arg.openable
   /\ \E n \in FirstPages(call.arg) : call.arg.pages[n] > 50)
    => call.ret[1] = FALSE

\* the only text of the PDF is 51 characters on its third page
C15_Witness ==
  /\ Returned("is_pdf_scanned")
  /\ Len(call.arg.pages) >= 3
  /\ call.arg.pages[3] = 51
  /\ \A n \in DOMAIN call.arg.pages : n # 3 => call.arg.pages[n] = 0
  /\ call.ret[1] = FALSE

\* C16: a PDF that can be opened and has no extractable text on its first
\* min(3, page count) pages is classified as scanned, whatever its later
\* pages contain.
C16_NoTextOnFirstPagesScanned ==
  (/\ Returned("is_pdf_scanned")
   /\ call.arg.openable
   /\ \A n \in FirstPages(call.arg) : call.arg.pages[n] = 0)
    => call.ret[1] = TRUE

\* three empty pages followed by a page of text
C16_Witness ==
  /\ Returned("is_pdf_scanned")
  /\ Len(call.arg.pages) = 4
  /\ \A n \in 1..3 : call.arg.pages[n] = 0
  /\ call.arg.pages[4] = 51
  /\ call.ret[1] = TRUE

\* C17: for a PDF that cannot be opened is_pdf_scanned returns false, and the
\* loader takes the standard text-layer path for it: it does not enter the
\* OCR path, makes no OCR call and writes no text file.
C17_UnopenableTakesStandardPath ==
  /\ (Returned("is_pdf_scanned") /\ ~call.arg.openable) => call.ret[1] = FALSE
  /\ (/\ Returned("load_and_split_document")
      /\ endswith(call.arg.file_path, Chars(".pdf"))
      /\ ~call.arg.content.openable)
       => /\ call.ret[1].branch = "pdf"
          /\ ~call.ret[1].scanned
          /\ call.ret[1].ocr_calls = 0
          /\ ~call.ret[1].written

\* the loader has returned for an unopenable PDF with the OCR client present
C17_Witness ==
  /\ Returned("load_and_split_document")
  /\ endswith(call.arg.file_path, Chars(".pdf"))
  /\ ~call.arg.content.openable
  /\ call.arg.processor # NULL
  /\ ~call.ret[1].scanned

\* neither OCR tier gives text: the whole-document response is not longer than
\* the acceptance threshold, and rasterising fails or every page call gives
\* nothing
NoTextFromOcr(pdf, ocr) ==
  /\ \/ ocr.direct.raised
     \/ SumLens(ocr.direct.pages) <= 100
  /\ \/ ocr.raster_fails
     \/ \A n \in 1..Len(pdf.pages) :
          ocr.page[n].raised \/ SumLens(ocr.page[n].pages) = 0

\* C18: when neither OCR tier yields text, convert_and_save_both returns
\* success false, an empty text_path and a non-empty list of errors.
C18_NoTextIsExplicitFailure ==
  (Returned("convert_and_save_both") /\ NoTextFromOcr(call.arg.pdf, call.arg.ocr))
    => /\ ~call.ret[1].success
       /\ call.ret[1].text_path = <<>>
       /\ call.ret[1].errors # <<>>

\* the whole-document call gave too little text and the page call raised
C18_Witness ==
  /\ Returned("convert_and_save_both")
  /\ ~call.arg.ocr.direct.raised /\ call.arg.ocr.direct.pages # <<>>
  /\ ~call.arg.ocr.raster_fails
  /\ NoTextFromOcr(call.arg.pdf, call.arg.ocr)
  /\ ~call.ret[1].success

\* the file cannot be loaded or its name has none of the three suffixes
BadDocument(file_path, content) ==
  \/ ~content.openable
  \/ \A x \in SupportedExtensions : ~endswith(file_path, x)

C20_DeleteIsIdempotent ==
  call.fn = "delete_doc_from_chroma" =>
    /\ (/\ Len(call.ret) >= 1
        /\ ~call.arg.store_fails[1]
        /\ ChunksOf(call.arg.store, call.arg.file_id) = {})
         => (call.ret[1].success /\ call.ret[1].store = call.arg.store)
    /\ (/\ Len(call.ret) = 2
        /\ ~call.arg.store_fails[1] /\ ~call.arg.store_fails[2])
         => /\ call.ret[1].success /\ call.ret[2].success
            /\ call.ret[2].store = call.ret[1].store

\* the chunks of a document were deleted, then the call was repeated
C20_Witness ==
  /\ call.fn = "delete_doc_from_chroma" /\ Len(call.ret) = 2
  /\ ChunksOf(call.arg.store, call.arg.file_id) # {}
  /\ call.ret[1].success /\ call.ret[2].success
  /\ call.ret[1].store # call.arg.store
  /\ call.ret[2].store = call.ret[1].store

\* C21: when a delete-doc request ends with success for a document that went
\* through OCR, the extracted-text file written for that document does not
\* exist any more.
C21_ArtifactsRemovedOnDelete ==
  [][(/\ deleting.pc = "db"
      /\ deleting.file_id \in DOMAIN document_store
      /\ deleting.file_id \notin DOMAIN document_store'
      /\ deleting.file_id \in DOMAIN futures \cap DOMAIN loaded
      /\ loaded[deleting.file_id].text_path # <<>>)
       => loaded[deleting.file_id].text_path \notin files']_vars

\* C22: the id given to an accepted upload was never given before, not even to
\* a document deleted since; the new record is pending and every record that
\* existed, a failed one of the same file included, stays as it was.
C22_FreshIdentifier ==
  [][\A d \in DOMAIN document_store' \ DOMAIN document_store :
       /\ d \notin Submitted
       /\ Status(document_store', d) = "pending"
       /\ \A e \in DOMAIN document_store :
            e \in DOMAIN document_store' /\ document_store'[e] = document_store[e]]_vars

\* a file whose document failed was uploaded again
C22_Witness ==
  \E d, e \in DOMAIN document_store :
    /\ d < e
    /\ document_store[d].filename = document_store[e].filename
    /\ Status(document_store, d) = "failed"
    /\ Status(document_store, e) = "pending"

NonEmptyLen(n) == n # 0
PageTextLens(resp) == IF resp.raised THEN <<>> ELSE SelectSeq(resp.pages, NonEmptyLen)

ResponseLen(resp) ==
  LET lens == PageTextLens(resp) IN
  IF lens = <<>> THEN 0 ELSE SumLens(lens) + 2 * (Len(lens) - 1)

DirectAccepted(ocr) == ResponseLen(ocr.direct) > 100

IsDirectToken(tok) == tok.src = "direct"
IsMarkerToken(tok) == tok.src = "marker"

\* C24: when the whole-document OCR call returns more than 100 characters,
\* extract_text_from_scanned_pdf makes that one call and no page call, and
\* returns exactly the text of that response.
C24_DirectTextAccepted ==
  (Returned("extract_text_from_scanned_pdf") /\ DirectAccepted(call.arg.ocr)) =>
    LET text == call.ret[1].text
        direct == SelectSeq(text, IsDirectToken)
    IN /\ call.ret[1].calls = << 0 >>
       /\ \A i \in DOMAIN text : text[i].src \in { "direct", "sep" }
       /\ [i \in DOMAIN direct |-> direct[i].len] = PageTextLens(call.arg.ocr.direct)
       /\ TextLen(text) = ResponseLen(call.arg.ocr.direct)

\* the whole-document response has two pages of 60 characters each
C24_Witness ==
  /\ Returned("extract_text_from_scanned_pdf")
  /\ call.arg.ocr.direct = OcrPages(<< 60, 60 >>)
  /\ Len(call.arg.pdf.pages) = 2
  /\ call.ret[1].calls = << 0 >>

C26_ApiCallsCounted ==
  Returned("convert_and_save_both") =>
    call.ret[1].api_calls_made = Len(OcrCalls(call.arg.pdf, call.arg.ocr))

\* C27: in a result of convert_and_save_both, success is true exactly when the
\* list of errors is empty.
C27_SuccessIffNoErrors ==
  Returned("convert_and_save_both") =>
    (call.ret[1].success <=> call.ret[1].errors = <<>>)

\* C28: when the whole-document text has 100 characters or fewer, the returned
\* text has no part of it: it is one marker block per page whose call returned
\* text, in page order, and it is empty when no page call returned text or the
\* PDF could not be rasterised.
C28_FallbackTextFromPagesOnly ==
  (Returned("extract_text_from_scanned_pdf") /\ ~DirectAccepted(call.arg.ocr)) =>
    LET text == call.ret[1].text
        markers == SelectSeq(text, IsMarkerToken)
        WithText(n) == ~call.arg.ocr.raster_fails /\ ResponseLen(call.arg.ocr.page[n]) > 0
        all_pages == [n \in 1..Len(call.arg.pdf.pages) |-> n]
    IN /\ \A i \in DOMAIN text : text[i].src \in { "marker", "page", "newline" }
       /\ [i \in DOMAIN markers |-> markers[i].page] = SelectSeq(all_pages, WithText)
       /\ (\A n \in 1..Len(call.arg.pdf.pages) : ~WithText(n)) => text = <<>>

\* the whole-document call gave 40 characters, no page call gave any
C28_Witness ==
  /\ Returned("extract_text_from_scanned_pdf")
  /\ call.arg.ocr.direct = OcrPages(<< 40 >>)
  /\ ~call.arg.ocr.raster_fails
  /\ \A n \in 1..Len(call.arg.pdf.pages) : ResponseLen(call.arg.ocr.page[n]) = 0
  /\ call.ret[1].text = <<>>

\* the step in which delete_doc_from_chroma fails for a delete-doc request
ChromaDeleteFailed ==
  /\ deleting.pc = "idle" /\ upload.pc = "idle"
  /\ faults' = faults + 1
  /\ running' = running

\* C29: a record leaves the document store only in the second step of a
\* delete-doc request for its id, which is taken only after the vector-store
\* deletion succeeded; when the vector-store deletion fails the request ends
\* with an error response and the document store and the files are unchanged.
C29_RecordDeletedAfterChroma ==
  [][/\ \A d \in DOMAIN document_store \ DOMAIN document_store' :
          deleting.pc = "db" /\ deleting.file_id = d
     /\ ChromaDeleteFailed =>
          /\ deleting'.pc = "idle"
          /\ response'.op = "delete" /\ response'.body = "error: Chroma"
          /\ UNCHANGED << document_store, files >>]_vars

\* a delete-doc request for a document with chunks was answered with the error
C29_Witness ==
  /\ response.op = "delete" /\ response.body = "error: Chroma"
  /\ deleting.pc = "idle"
  /\ response.file_id \in DOMAIN document_store
  /\ ChunksOf(vectorstore, response.file_id) # {}

(***************************************************************************)
(* POST /chat (chat) and the application_logs table.  The endpoint is a    *)
(* plain def, which FastAPI runs on a thread of its own for every request, *)
(* so that the steps of several requests interleave.                       *)
(***************************************************************************)
ClientSessions == { "s1" }
Questions == { "q1", "q2" }
Answers == { "a1", "a2" }

\* the session_id field of QueryInput: absent, empty, or a session of the client
SessionInputs == { NULL, Some("") } \cup { Some(s) : s \in ClientSessions }

\* str(uuid.uuid4()) of the n-th request
uuid4(n) == "uuid-" \o ToString(n)

\* indexes of the rows WHERE session_id = ?
SessionRows(logs, session_id) == { i \in 1..Len(logs) : logs[i].session_id = session_id }

\* the orders in which ORDER BY created_at may return the rows I: the column
\* has the second as its unit and rows with equal values come in any order
OrderByCreatedAt(logs, I) ==
  { p \in [1..Cardinality(I) -> I] :
      /\ \A j, k \in 1..Cardinality(I) : j # k => p[j] # p[k]
      /\ \A j, k \in 1..Cardinality(I) : j < k => logs[p[j]].created_at <= logs[p[k]].created_at }

\* messages.extend([human, ai]) for every fetched row
Messages(logs, p) ==
  [k \in 1..(2 * Len(p)) |->
     IF k % 2 = 1 THEN [role |-> "human", content |-> logs[p[(k + 1) \div 2]].user_query]
                  ELSE [role |-> "ai", content |-> logs[p[k \div 2]].gpt_response]]

\* the message lists get_chat_history may return
get_chat_history(logs, session_id) ==
  { Messages(logs, p) : p \in OrderByCreatedAt(logs, SessionRows(logs, session_id)) }

\* the row written by the INSERT, created_at taking its default
insert_application_logs(logs, session_id, user_query, gpt_response) ==
  Append(logs, [session_id |-> session_id, user_query |-> user_query,
                gpt_response |-> gpt_response, created_at |-> now])

\* lines 48-55: the request arrives and gets a session id when it has none
ChatRequest(session_input, question) ==
  /\ Len(chats) < MaxChats
  /\ chats' = Append(chats, [session_id |-> IF session_input \in { NULL, Some("") }
                                              THEN uuid4(Len(chats) + 1)
                                              ELSE session_input[1],
                             question |-> question, pc |-> "history",
                             chat_history |-> <<>>, answer |-> NULL, code |-> 0])
  /\ UNCHANGED << app_vars, call, application_logs, now >>

\* lines 57-58: get_chat_history and get_rag_chain, or one of them raises
ChatGetHistory(r) ==
  /\ chats[r].pc = "history"
  /\ \/ \E h \in get_chat_history(application_logs, chats[r].session_id) :
          chats' = [chats EXCEPT ![r].pc = "invoke", ![r].chat_history = h]
     \/ chats' = [chats EXCEPT ![r].pc = "failed", ![r].code = 500]
  /\ UNCHANGED << app_vars, call, application_logs, now >>

\* lines 60-64: rag_chain.invoke gives the answer, or raises
ChatInvoke(r) ==
  /\ chats[r].pc = "invoke"
  /\ \/ \E answer \in Answers :
          chats' = [chats EXCEPT ![r].pc = "log", ![r].answer = Some(answer)]
     \/ chats' = [chats EXCEPT ![r].pc = "failed", ![r].code = 500]
  /\ UNCHANGED << app_vars, call, application_logs, now >>

\* lines 66-79: insert_application_logs and the response, or the INSERT raises
ChatLog(r) ==
  /\ chats[r].pc = "log"
  /\ \/ /\ application_logs' = insert_application_logs(application_logs, chats[r].session_id,
                                                         chats[r].question, chats[r].answer[1])
        /\ chats' = [chats EXCEPT ![r].pc = "done", ![r].code = 200]
     \/ /\ chats' = [chats EXCEPT ![r].pc = "failed", ![r].code = 500]
        /\ UNCHANGED application_logs
  /\ UNCHANGED << app_vars, call, now >>

\* a second passes
Tick ==
  /\ now < MaxClock
  /\ now' = now + 1
  /\ UNCHANGED << app_vars, call, application_logs, chats >>

ChatNext ==
  \/ \E session_input \in SessionInputs, question \in Questions : ChatRequest(session_input, question)
  \/ \E r \in DOMAIN chats : ChatGetHistory(r)
  \/ \E r \in DOMAIN chats : ChatInvoke(r)
  \/ \E r \in DOMAIN chats : ChatLog(r)
  \/ Tick

ChatSpec == Init /\ [][ChatNext]_vars

\* the session ids that occur in the log
LoggedSessions == { application_logs[i].session_id : i \in 1..Len(application_logs) }

\* the rows of a session in the order in which they were inserted
InsertionOrder(logs, session_id) ==
  SelectSeq([i \in 1..Len(logs) |-> i], LAMBDA i : logs[i].session_id = session_id)

\* the log grows only by the one row of a request that has its answer, in the
\* session of that request, and a request that fails leaves the log as it is
ChatAppendsOwnEntry ==
  [][/\ application_logs' # application_logs =>
          \E r \in DOMAIN chats :
            /\ chats[r].pc = "log" /\ chats[r].answer # NULL /\ chats'[r].pc = "done"
            /\ Len(application_logs') = Len(application_logs) + 1
            /\ SubSeq(application_logs', 1, Len(application_logs)) = application_logs
            /\ application_logs'[Len(application_logs')].session_id = chats[r].session_id
            /\ application_logs'[Len(application_logs')].user_query = chats[r].question
            /\ application_logs'[Len(application_logs')].gpt_response = chats[r].answer[1]
     /\ \A r \in DOMAIN chats :
          chats[r].pc # "failed" /\ chats'[r].pc = "failed" =>
            application_logs' = application_logs]_vars

\* C30: every message list that get_chat_history may return for a session has
\* even length, alternates human and ai, and gives the entries of the session
\* in the order in which they were inserted.
C30_HistoryInInsertionOrder ==
  \A s \in LoggedSessions : \A h \in get_chat_history(application_logs, s) :
    /\ Len(h) % 2 = 0
    /\ \A k \in 1..Len(h) : h[k].role = IF k % 2 = 1 THEN "human" ELSE "ai"
    /\ h = Messages(application_logs, InsertionOrder(application_logs, s))

====
